---- MODULE Spec2Model ----
(***************************************************************************)
(* Feature spaces of taggerflow (features.py): counted vocabularies        *)
(* (SupertagSpace, PrefixSpace, SuffixSpace) and the pretrained vocabulary *)
(* (WordSpace), with their index / feature / size lookups.                 *)
(*                                                                         *)
(* Encoding.  A Python string is a sequence of one-character strings.      *)
(* Python's None is PyNone, a one-element sequence whose element is not a  *)
(* character, so it differs from every string.  An optional integer        *)
(* (min_count, embedding_size) is <<>> for None and <<k>> for k.  Python   *)
(* lists are sequences; a Python position i is position i + 1 here.        *)
(***************************************************************************)
EXTENDS Integers, Sequences, FiniteSets, TLC

\* ------------------------------------------------------------------ bounds
MaxSentences == 2
MaxMinCount == 2
MaxCalls == 2
MaxLines == 2
MaxFields == 2
MaxAffix == 3

\* --------------------------------------------------------------- constants
UNKNOWN_MARKER == <<"*", "U", "N", "K", "N", "O", "W", "N", "*">>
OUT_OF_RANGE_MARKER == <<"*", "O", "O", "R", "*">>
START_MARKER == <<"<", "s", ">">>
END_MARKER == <<"<", "/", "s", ">">>
PyNone == <<"None">>
NoInt == <<>>
AffixEmbeddingSize == 32

\* ------------------------------------------------------------ pure helpers
UpperCase == <<"D", "K", "N", "O", "U", "W">>
LowerCase == <<"d", "k", "n", "o", "u", "w">>

\* str.lower() on one character
LowerChar(c) ==
    IF \E k \in DOMAIN UpperCase : UpperCase[k] = c
    THEN LowerCase[CHOOSE k \in DOMAIN UpperCase : UpperCase[k] = c]
    ELSE c

\* str.lower()
Lower(word) == [k \in DOMAIN word |-> LowerChar(word[k])]

Range(s) == {s[k] : k \in DOMAIN s}

RECURSIVE Flatten(_)
Flatten(ss) == IF ss = <<>> THEN <<>> ELSE Head(ss) \o Flatten(Tail(ss))

\* all sequences over S of length at most m
SeqsUpTo(S, m) == UNION {[1..k -> S] : k \in 0..m}

\* the orders in which a dict with key set S may be iterated
Orders(S) == {o \in [1..Cardinality(S) -> S] : Range(o) = S}

\* token[:n] for 0 <= n <= len(token)
PrefixSlice(token, n) == SubSeq(token, 1, n)

\* token[-n:] : -0 is 0, so n = 0 slices from the start
SuffixSlice(token, n) ==
    IF n = 0 THEN token ELSE SubSeq(token, Len(token) - n + 1, Len(token))

PrefixExtractFromToken(n, token) ==
    IF token = START_MARKER \/ token = END_MARKER
    THEN token
    ELSE IF Len(token) >= n THEN PrefixSlice(token, n) ELSE OUT_OF_RANGE_MARKER

SuffixExtractFromToken(n, token) ==
    IF token = START_MARKER \/ token = END_MARKER
    THEN token
    ELSE IF Len(token) >= n THEN SuffixSlice(token, n) ELSE OUT_OF_RANGE_MARKER

\* WordSpace.extract_from_token
WordExtractFromToken(token) == Lower(token)

extract_from_token(k, n, token) ==
    IF k = "PrefixSpace" THEN PrefixExtractFromToken(n, token)
    ELSE IF k = "SuffixSpace" THEN SuffixExtractFromToken(n, token)
    ELSE WordExtractFromToken(token)

\* SupertagSpace.extract: every supertag that is not None, in corpus order
SupertagExtract(sents) ==
    SelectSeq(Flatten([j \in DOMAIN sents |-> sents[j][2]]), LAMBDA s : s # PyNone)

\* EmbeddingSpace.extract: the feature of every token, skipping None
EmbeddingExtract(k, n, sents) ==
    LET toks == Flatten([j \in DOMAIN sents |-> sents[j][1]])
        feats == [j \in DOMAIN toks |-> extract_from_token(k, n, toks[j])]
    IN SelectSeq(feats, LAMBDA f : f # PyNone)

extract(k, n, sents) ==
    IF k = "SupertagSpace" THEN SupertagExtract(sents) ELSE EmbeddingExtract(k, n, sents)

\* collections.Counter(feats)[f]
Count(feats, f) == Cardinality({j \in DOMAIN feats : feats[j] = f})

\* the threshold test with a strict comparison
Retain_Strict(feats, mc, f) == mc = NoInt \/ Count(feats, f) > mc[1]

\* min_count is None or counts[f] >= min_count
Retain(feats, mc, f) == mc = NoInt \/ Count(feats, f) >= mc[1]

\* [f for f in counts if ...] for one iteration order of counts
RetainedSpace(order, feats, mc) == SelectSeq(order, LAMBDA f : Retain(feats, mc, f))

AppendUnknown(k) == k # "SupertagSpace"

\* the default index taken after the unknown marker is appended
DefaultIndex_AfterAppend(sp, append_unknown) ==
    IF append_unknown THEN Len(sp) + 1 ELSE -1

\* a closed space that defaults to position 0
DefaultIndex_ClosedZero(sp, append_unknown) ==
    IF append_unknown THEN Len(sp) ELSE 0

DefaultIndex(sp, append_unknown) == IF append_unknown THEN Len(sp) ELSE -1

\* enumerate counting from 1
Enumerate_FromOne(sp) ==
    [f \in Range(sp) |-> CHOOSE j \in DOMAIN sp :
                             sp[j] = f /\ \A m \in DOMAIN sp : sp[m] = f => m <= j]

\* {f: i for i, f in enumerate(space)} ; a later duplicate overwrites
Enumerate(sp) ==
    [f \in Range(sp) |-> (CHOOSE j \in DOMAIN sp :
                              sp[j] = f /\ \A m \in DOMAIN sp : sp[m] = f => m <= j) - 1]

FinalSpace(sp, append_unknown) ==
    IF append_unknown THEN Append(sp, UNKNOWN_MARKER) ELSE sp

\* the value a defaultdict's factory returns for the space
DefaultFactory(k, dflt) == IF k = "WordSpace" THEN 0 ELSE dflt

\* self.ispace[f] : the stored index, or the factory's value
IndexResult(isp, k, dflt, f) ==
    IF f \in DOMAIN isp THEN isp[f] ELSE DefaultFactory(k, dflt)

\* the dict after self.ispace[f] : a missing key is inserted by defaultdict
IspaceAfterIndex(isp, k, dflt, f) ==
    IF f \in DOMAIN isp THEN isp
    ELSE [g \in DOMAIN isp \cup {f} |->
             IF g = f THEN DefaultFactory(k, dflt) ELSE isp[g]]

\* self.space[i] : does the list subscript succeed
FeatureInRange(sp, i) == -Len(sp) <= i /\ i < Len(sp)

\* self.space[i] for an i that is in range; negative i counts from the end
FeatureResult(sp, i) == IF i >= 0 THEN sp[i + 1] ELSE sp[Len(sp) + i + 1]

\* ------------------------------------------------------------------- state
VARIABLES
    kind,             \* the class of the object
    sentences,        \* constructor argument of a counted space
    embeddings_file,  \* lines of the file given to a pretrained space, split
    min_count,        \* constructor argument, NoInt for None
    n,                \* affix length of PrefixSpace / SuffixSpace
    pc,               \* "new", "constructed" or "failed"
    space,            \* self.space
    ispace,           \* self.ispace, the stored keys of the defaultdict
    default_index,    \* self.default_index
    embeddings,       \* self.embeddings
    embedding_size,   \* self.embedding_size, NoInt for None
    op,               \* the last call
    arg_f,            \* argument of the last index / extract_from_token call
    arg_i,            \* argument of the last feature call
    raised,           \* the exception the last call raised, "" for none
    ret_f,            \* value returned by the last feature / extract call
    ret_i,            \* value returned by the last index / size call
    calls             \* number of lookups made

vars == <<kind, sentences, embeddings_file, min_count, n, pc, space, ispace,
          default_index, embeddings, embedding_size, op, arg_f, arg_i, raised,
          ret_f, ret_i, calls>>

input == <<kind, sentences, embeddings_file, min_count, n>>
object == <<space, ispace, default_index, embeddings, embedding_size>>
lastcall == <<op, arg_f, arg_i, raised, ret_f, ret_i>>

EmptyDict == [f \in {} |-> 0]

\* ------------------------------------------------------------- input sets
AffixLengths == {1, Len(UNKNOWN_MARKER)}
MinCounts == {NoInt} \cup {<<c>> : c \in 0..MaxMinCount}
NeverSeen == <<"z">>

\* the token sequences and the supertag sequences a sentence may hold
TokenSeqs == {<<>>, <<UNKNOWN_MARKER>>, <<<<"a">>, <<"a", "b">>>>}
TagSeqs == {<<>>, <<<<"S">>>>, <<<<"N">>, PyNone, <<"N">>>>}

TokenCorpora == SeqsUpTo({<<toks, <<>>>> : toks \in TokenSeqs}, MaxSentences)
TagCorpora == SeqsUpTo({<<<<>>, tags>> : tags \in TagSeqs}, MaxSentences)

Blank ==
    /\ space = <<>>
    /\ ispace = EmptyDict
    /\ default_index = 0
    /\ embeddings = <<>>
    /\ embedding_size = NoInt
    /\ op = "none"
    /\ arg_f = <<>>
    /\ arg_i = 0
    /\ raised = ""
    /\ ret_f = <<>>
    /\ ret_i = 0
    /\ calls = 0

\* ------------------------------------------------------- counted spaces
InitCounted ==
    /\ kind \in {"SupertagSpace", "PrefixSpace", "SuffixSpace"}
    /\ sentences \in (IF kind = "SupertagSpace" THEN TagCorpora ELSE TokenCorpora)
    /\ n \in (IF kind = "SupertagSpace" THEN {0} ELSE AffixLengths)
    /\ min_count \in MinCounts
    /\ embeddings_file = <<>>
    /\ pc = "new"
    /\ Blank

\* FeatureSpace.__init__ (through the subclass constructors)
ConstructCounted ==
    /\ pc = "new"
    /\ kind # "WordSpace"
    /\ LET feats == extract(kind, n, sentences)
       IN \E order \in Orders(Range(feats)) :
            LET sp == RetainedSpace(order, feats, min_count)
            IN /\ default_index' = DefaultIndex(sp, AppendUnknown(kind))
               /\ ispace' = Enumerate(sp)
               /\ space' = FinalSpace(sp, AppendUnknown(kind))
    /\ embedding_size' = IF AppendUnknown(kind) THEN <<AffixEmbeddingSize>> ELSE NoInt
    /\ pc' = "constructed"
    /\ UNCHANGED <<input, embeddings, lastcall, calls>>

\* the words of the file's lines
FileWords == {embeddings_file[j][1] : j \in {m \in DOMAIN embeddings_file :
                                                 embeddings_file[m] # <<>>}}

\* the values index() is called with
QueryValues == Range(space) \cup Range(extract(kind, n, sentences))
                   \cup FileWords \cup {NeverSeen, UNKNOWN_MARKER}

\* FeatureSpace.index
Index(f) ==
    /\ pc = "constructed"
    /\ calls < MaxCalls
    /\ calls' = calls + 1
    /\ op' = "index"
    /\ arg_f' = f
    /\ raised' = ""
    /\ ret_i' = IndexResult(ispace, kind, default_index, f)
    /\ ispace' = IspaceAfterIndex(ispace, kind, default_index, f)
    /\ UNCHANGED <<input, pc, space, default_index, embeddings, embedding_size,
                   arg_i, ret_f>>

\* FeatureSpace.feature
Feature(i) ==
    /\ pc = "constructed"
    /\ calls < MaxCalls
    /\ calls' = calls + 1
    /\ op' = "feature"
    /\ arg_i' = i
    /\ IF FeatureInRange(space, i)
       THEN raised' = "" /\ ret_f' = FeatureResult(space, i)
       ELSE raised' = "IndexError" /\ ret_f' = <<>>
    /\ UNCHANGED <<input, pc, object, arg_f, ret_i>>

\* FeatureSpace.size
Size ==
    /\ pc = "constructed"
    /\ calls < MaxCalls
    /\ calls' = calls + 1
    /\ op' = "size"
    /\ raised' = ""
    /\ ret_i' = Len(space)
    /\ UNCHANGED <<input, pc, object, arg_f, arg_i, ret_f>>

IndexAny == \E f \in QueryValues : Index(f)
\* the positions feature() is called with: every valid one, the closed
\* space's default, and the nearest ones out of range on either side
QueryPositions == (-1..Len(space)) \cup {-(Len(space) + 1)}
FeatureAny == \E i \in QueryPositions : Feature(i)

NextCounted ==
    \/ ConstructCounted
    \/ IndexAny
    \/ FeatureAny
    \/ Size

SpecCounted == InitCounted /\ [][NextCounted]_vars

\* the counted spaces that are PrefixSpace objects
InitPrefix == InitCounted /\ kind = "PrefixSpace"
SpecPrefix == InitPrefix /\ [][NextCounted]_vars

\* ------------------------------------------------- pretrained vocabulary
WordSet == {UNKNOWN_MARKER, Lower(UNKNOWN_MARKER), <<"D", "o", "g">>, <<"d", "o", "g">>}
FieldSet == {"0.1", "x"}

\* line.split() of every line a file may hold: no field at all for a blank
\* line, otherwise a word followed by the fields of its vector
LineSet == {<<>>} \cup {<<w>> \o fs : w \in WordSet, fs \in SeqsUpTo(FieldSet, MaxFields)}
FileSet == SeqsUpTo(LineSet, MaxLines)

\* float(s) succeeds
IsFloat(s) == s # "x"

\* float(s), in tenths
Float(s) == IF s = "0.1" THEN 1 ELSE 0

LoadStart ==
    [raised |-> "", already_added |-> {}, embedding_size |-> NoInt,
     space |-> <<>>, embeddings |-> <<>>]

\* a check that rejects only a longer vector
DimensionsMismatch_OnlyLonger(size, embedding) == size[1] < Len(embedding)

\* self.embedding_size != len(embedding)
DimensionsMismatch(size, embedding) == size[1] # Len(embedding)

\* word not in already_added
IsNewWord(already_added, word) == word \notin already_added

\* the body of the loop over the lines, for line number i (from 0)
ProcessLine(st, i, splits) ==
    IF splits = <<>> THEN [st EXCEPT !.raised = "IndexError"]
    ELSE IF i = 0 /\ splits[1] # UNKNOWN_MARKER
    THEN [st EXCEPT !.raised = "ValueError: First embedding"]
    ELSE LET word == Lower(splits[1])
             fields == Tail(splits)
             embedding == [k \in DOMAIN fields |-> Float(fields[k])]
             added == [st EXCEPT !.already_added = @ \cup {word},
                                 !.space = Append(@, word),
                                 !.embeddings = Append(@, embedding)]
         IN IF ~IsNewWord(st.already_added, word) THEN st
            ELSE IF \E k \in DOMAIN fields : ~IsFloat(fields[k])
            THEN [st EXCEPT !.raised = "ValueError: float"]
            ELSE IF st.embedding_size = NoInt
            THEN [added EXCEPT !.embedding_size = <<Len(embedding)>>]
            ELSE IF DimensionsMismatch(st.embedding_size, embedding)
            THEN [st EXCEPT !.raised = "ValueError: Dimensions mismatch"]
            ELSE added

\* the loop over the lines from line number i on; an exception ends it
RECURSIVE LoadLines(_, _, _)
LoadLines(lines, i, st) ==
    IF i >= Len(lines) \/ st.raised # "" THEN st
    ELSE LoadLines(lines, i + 1, ProcessLine(st, i, lines[i + 1]))

InitPretrained ==
    /\ kind = "WordSpace"
    /\ embeddings_file \in FileSet
    /\ sentences = <<>>
    /\ n = 0
    /\ min_count = NoInt
    /\ pc = "new"
    /\ Blank

\* PretrainedEmbeddingSpace.__init__ (through WordSpace.__init__)
ConstructPretrained ==
    /\ pc = "new"
    /\ kind = "WordSpace"
    /\ LET st == LoadLines(embeddings_file, 0, LoadStart)
       IN IF st.raised # ""
          THEN /\ pc' = "failed"
               /\ op' = "__init__"
               /\ raised' = st.raised
               /\ UNCHANGED <<object, arg_f, arg_i, ret_f, ret_i>>
          ELSE /\ pc' = "constructed"
               /\ space' = st.space
               /\ embeddings' = st.embeddings
               /\ embedding_size' = st.embedding_size
               /\ ispace' = Enumerate(st.space)
               /\ UNCHANGED <<default_index, lastcall>>
    /\ UNCHANGED <<input, calls>>

NextPretrained ==
    \/ ConstructPretrained
    \/ IndexAny
    \/ FeatureAny
    \/ Size

SpecPretrained == InitPretrained /\ [][NextPretrained]_vars

\* --------------------------------------------------- affix extraction
AffixTokens == {START_MARKER, END_MARKER} \cup SeqsUpTo({"a", "b"}, MaxAffix)

InitAffix ==
    /\ kind \in {"PrefixSpace", "SuffixSpace"}
    /\ n \in 0..(MaxAffix + 1)
    /\ sentences = <<>>
    /\ embeddings_file = <<>>
    /\ min_count = NoInt
    /\ pc = "new"
    /\ Blank

\* PrefixSpace.extract_from_token / SuffixSpace.extract_from_token
ExtractFromToken(token) ==
    /\ kind \in {"PrefixSpace", "SuffixSpace"}
    /\ op' = "extract_from_token"
    /\ arg_f' = token
    /\ raised' = ""
    /\ ret_f' = extract_from_token(kind, n, token)
    /\ UNCHANGED <<input, pc, object, arg_i, ret_i, calls>>

NextAffix == \E token \in AffixTokens : ExtractFromToken(token)

SpecAffix == InitAffix /\ [][NextAffix]_vars

\* ---------------------------------------------------------------- claims
\* what the constructor's arguments say, independently of the object built
Extracted == extract(kind, n, sentences)
Occurrences(f) == Cardinality({j \in DOMAIN Extracted : Extracted[j] = f})
RetainedValues ==
    {f \in Range(Extracted) : min_count = NoInt \/ Occurrences(f) >= min_count[1]}
Fallback == kind \in {"PrefixSpace", "SuffixSpace"}
Closed == kind = "SupertagSpace"
Counted == Fallback \/ Closed

\* C1: in a counted space with the fallback slot, index(v) of a value v that
\* was not retained returns size() - 1 without failing, whatever calls came
\* before, and feature(size() - 1) is the unknown marker.
C1_UnretainedIndexIsFallback ==
    (pc = "constructed" /\ Fallback /\ op = "index" /\ arg_f \notin RetainedValues)
        => /\ raised = ""
           /\ ret_i = Len(space) - 1
           /\ FeatureInRange(space, Len(space) - 1)
           /\ FeatureResult(space, Len(space) - 1) = UNKNOWN_MARKER

\* a value seen below the threshold is looked up after an earlier lookup of
\* a value never seen, in a space that retained another value
C1_Witness ==
    /\ pc = "constructed" /\ Fallback /\ op = "index"
    /\ arg_f \in Range(Extracted) \ RetainedValues
    /\ NeverSeen \in DOMAIN ispace
    /\ RetainedValues # {}

\* C2: in a counted space, with or without the fallback slot, every retained
\* value v has feature(index(v)) = v, also after earlier index() calls.
C2_RetainedRoundTrip ==
    (pc = "constructed" /\ Counted)
        => \A v \in RetainedValues :
              LET i == IndexResult(ispace, kind, default_index, v)
              IN FeatureInRange(space, i) /\ FeatureResult(space, i) = v

\* two retained values, after two index() calls on values that were not
\* retained, the last on a value never seen
C2_Witness ==
    /\ pc = "constructed" /\ Counted
    /\ op = "index" /\ arg_f = NeverSeen
    /\ Cardinality(DOMAIN ispace) >= Cardinality(RetainedValues) + 2
    /\ Cardinality(RetainedValues) >= 2

\* C3: a counted space retains exactly the distinct extracted values whose
\* count is >= min_count (all of them when min_count is None); size() is their
\* number for a closed space and their number plus one with the fallback slot.
C3_SizeIsRetainedCount ==
    (pc = "constructed" /\ Counted)
        => LET k == Cardinality(RetainedValues)
           IN /\ Len(space) = IF Closed THEN k ELSE k + 1
              /\ {space[j] : j \in 1..k} = RetainedValues
              /\ (op = "size" => raised = "" /\ ret_i = Len(space))

\* size() is called on a space whose threshold kept one value and dropped
\* another
C3_Witness ==
    /\ pc = "constructed" /\ Counted /\ op = "size"
    /\ RetainedValues # {}
    /\ Range(Extracted) \ RetainedValues # {}

\* C4: in a pretrained space that was constructed without error, index(w) of
\* a word w that is not in the vocabulary returns 0, and feature(0) does not
\* fail and is the unknown marker.
C4_AbsentWordIsUnknownMarker ==
    (pc = "constructed" /\ kind = "WordSpace" /\ op = "index"
        /\ arg_f \notin Range(space))
        => /\ raised = ""
           /\ ret_i = 0
           /\ FeatureInRange(space, 0)
           /\ FeatureResult(space, 0) = UNKNOWN_MARKER

\* the length of the vector of line j, for a line that is not blank
VectorLen(j) == Len(embeddings_file[j]) - 1
NonBlank == {j \in DOMAIN embeddings_file : embeddings_file[j] # <<>>}

\* every line is a word followed by numbers
AllVectors ==
    /\ embeddings_file # <<>>
    /\ NonBlank = DOMAIN embeddings_file
    /\ \A j \in DOMAIN embeddings_file :
          \A k \in 2..Len(embeddings_file[j]) : embeddings_file[j][k] # "x"

\* C5 (as claimed): no file holding a line whose vector length differs from
\* that of the first line's vector loads successfully.
C5_DifferingLineNeverLoads ==
    (kind = "WordSpace" /\ AllVectors
        /\ \E j \in DOMAIN embeddings_file : VectorLen(j) # VectorLen(1))
        => pc # "constructed"

WellFormedFile == AllVectors /\ embeddings_file[1][1] = UNKNOWN_MARKER

FirstOccurrence(j) ==
    \A m \in 1..(j - 1) : Lower(embeddings_file[m][1]) # Lower(embeddings_file[j][1])

\* C5 (amended): for a file of well-formed lines that starts with the unknown
\* marker, loading fails with the dimension-mismatch error exactly when some
\* line whose lower-cased word occurs on no earlier line has a vector length
\* different from the first line's; a differing line that repeats an earlier
\* word is skipped unchecked and the file loads.
C5_MismatchOnFirstOccurrences ==
    (kind = "WordSpace" /\ pc # "new" /\ WellFormedFile)
        => /\ (\E j \in DOMAIN embeddings_file :
                   FirstOccurrence(j) /\ VectorLen(j) # VectorLen(1))
                <=> (pc = "failed" /\ raised = "ValueError: Dimensions mismatch")
           /\ pc = "failed" => raised = "ValueError: Dimensions mismatch"

\* a well-formed file was rejected for its second word's shorter vector
C5_Witness ==
    /\ kind = "WordSpace" /\ WellFormedFile
    /\ pc = "failed" /\ raised = "ValueError: Dimensions mismatch"
    /\ VectorLen(2) < VectorLen(1)

\* C6 (as claimed): in a closed space, index(v) of a value that was not
\* retained does not fail and returns 0.
C6_ClosedUnretainedIsZero ==
    (pc = "constructed" /\ Closed /\ op = "index" /\ arg_f \notin RetainedValues)
        => raised = "" /\ ret_i = 0

\* C6 (amended): in a closed space, index(v) of a value that was not retained
\* does not fail and returns -1.
C6_ClosedUnretainedIsMinusOne ==
    (pc = "constructed" /\ Closed /\ op = "index" /\ arg_f \notin RetainedValues)
        => raised = "" /\ ret_i = -1

\* a closed space that retained a tag is asked for a tag it dropped
C6_Witness ==
    /\ pc = "constructed" /\ Closed /\ op = "index"
    /\ arg_f \in Range(Extracted) \ RetainedValues
    /\ RetainedValues # {}

\* C7: feature(i) fails with an out-of-range error for every i outside
\* [0, size()), negative i included, and returns the entry at position i for
\* every i inside.
C7_FeatureOutOfRangeFails ==
    (pc = "constructed" /\ op = "feature")
        => IF 0 <= arg_i /\ arg_i < Len(space)
           THEN raised = "" /\ ret_f = space[arg_i + 1]
           ELSE raised = "IndexError"

\* C8: once construction is complete no call changes the vocabulary, the
\* stored keys and indices of the value-to-index mapping, the default index
\* or the embedding table.
C8_LookupsChangeNothing ==
    [][pc = "constructed"
          => UNCHANGED <<space, ispace, default_index, embeddings>>]_vars

\* C9: a boundary marker is returned unchanged; another token of length >= n
\* yields its first (prefix) or last (suffix) n characters, a string of length
\* n; another token shorter than n yields the out-of-range marker.
C9_AffixOfLengthN ==
    op = "extract_from_token"
        => IF arg_f \in {START_MARKER, END_MARKER} THEN ret_f = arg_f
           ELSE IF Len(arg_f) < n THEN ret_f = OUT_OF_RANGE_MARKER
           ELSE /\ Len(ret_f) = n
                /\ ret_f = IF kind = "PrefixSpace"
                           THEN [k \in 1..n |-> arg_f[k]]
                           ELSE [k \in 1..n |-> arg_f[Len(arg_f) - n + k]]

\* C10: in every constructed space index(feature(i)) = i for every position
\* i with 0 <= i < size().
C10_IndexInvertsFeature ==
    pc = "constructed"
        => \A i \in 0..(Len(space) - 1) :
              IndexResult(ispace, kind, default_index, FeatureResult(space, i)) = i

====
